---- MODULE Spec2Model ----
(***************************************************************************)
(* Model of the YoutubeDownloaderService of MediaDL.  The repository holds *)
(* three versions of the service:                                          *)
(*   "direct"      src/unnamed/part_000          (link to the source URL)  *)
(*   "ytdl"        src/unnamed/part_001:48-290   (in-browser ytdl-core)    *)
(*   "thirdparty"  src/unnamed/part_001:328-533  (third-party redirect)    *)
(* Strings are sequences of one-character strings, so that parseInt,       *)
(* toLowerCase and includes are computed character by character.           *)
(***************************************************************************)
EXTENDS Integers, Sequences, FiniteSets, TLC

VARIABLES
  svc,          \* which version of the service runs
  formats,      \* the format list of the requested item
  mediaType, quality,
  pc,           \* "ready" | "returned": a direct call of selectBestFormat
  filtered,     \* filteredFormats of the last selectBestFormat call
  targetHeight, \* targetHeight of the last call
  stage,        \* the return statement the last call left by
  result,       \* the descriptor returned (its index), Null for null
  ytdlLoaded,   \* part_001: the module variable ytdl is not null
  onProgress,   \* an onProgress callback was passed
  response,     \* what the metadata provider answers
  dpc,          \* position of downloadVideo
  metadata,     \* how getVideoMetadata settled
  promise,      \* state of the promise returned by downloadVideo
  settleCalls,  \* calls of resolve or reject
  error,        \* the rejection reason
  clicks,       \* link.click() calls
  selectCalls,  \* selectBestFormat calls made by downloadVideo
  downloaded,   \* ytdl: bytes received from the stream
  lastPercent,  \* ytdl: percent of the last onProgress call, -1 before
  timer,        \* state of the progress interval: "none" | "running" | "cleared"
  progress,     \* the simulated progress value
  lastReported, \* the last progress value that reached the caller, -1 before
  unreported    \* a tick has fired whose value did not reach the caller

selvars == <<svc, formats, mediaType, quality, pc,
             filtered, targetHeight, stage, result>>
dlvars == <<ytdlLoaded, onProgress, response, dpc, metadata, promise,
            settleCalls, error, clicks, selectCalls, downloaded, lastPercent,
            timer, progress, lastReported, unreported>>
simvars == <<progress, lastReported, unreported>>
vars == <<selvars, dlvars>>

----
(* Bounds *)
MaxFormats == 2
MaxChunks == 2

----
(* String literals used as inputs *)
Undefined == <<"undefined">>
sEmpty == <<>>
sAbc == <<"a", "b", "c">>
s720 == <<"7", "2", "0">>
s1080 == <<"1", "0", "8", "0">>
s2160 == <<"2", "1", "6", "0">>
s240p == <<"2", "4", "0", "p">>
s360p == <<"3", "6", "0", "p">>
s480p == <<"4", "8", "0", "p">>
s720p == <<"7", "2", "0", "p">>
s1080p == <<"1", "0", "8", "0", "p">>
s1440p == <<"1", "4", "4", "0", "p">>
s2160p == <<"2", "1", "6", "0", "p">>
s4320p == <<"4", "3", "2", "0", "p">>
sBest == <<"b", "e", "s", "t">>
sConstructor == <<"c", "o", "n", "s", "t", "r", "u", "c", "t", "o", "r">>
sToString == <<"t", "o", "S", "t", "r", "i", "n", "g">>
sValueOf == <<"v", "a", "l", "u", "e", "O", "f">>
sMp4 == <<"m", "p", "4">>
sWebm == <<"w", "e", "b", "m">>

Services == {"direct", "ytdl", "thirdparty"}
MediaTypes == {"video", "audio"}

----
(* JavaScript primitives *)
Digits == <<"0", "1", "2", "3", "4", "5", "6", "7", "8", "9">>
WhiteSpace == {" ", "\t", "\n"}
UpperCase == <<"A", "B", "C", "D", "E", "F", "G", "H", "I", "J", "K", "L", "M",
               "N", "O", "P", "Q", "R", "S", "T", "U", "V", "W", "X", "Y", "Z">>
LowerCase == <<"a", "b", "c", "d", "e", "f", "g", "h", "i", "j", "k", "l", "m",
               "n", "o", "p", "q", "r", "s", "t", "u", "v", "w", "x", "y", "z">>

IsDigit(c) == \E d \in 1..10 : Digits[d] = c
DigitVal(c) == (CHOOSE d \in 1..10 : Digits[d] = c) - 1

NaN == [nan |-> TRUE, n |-> 0]
Num(k) == [nan |-> FALSE, n |-> k]

RECURSIVE SkipWhiteSpace(_, _)
SkipWhiteSpace(s, i) ==
  IF i <= Len(s) /\ s[i] \in WhiteSpace THEN SkipWhiteSpace(s, i + 1) ELSE i

RECURSIVE ParseDigits(_, _, _)
ParseDigits(s, i, acc) ==
  IF i <= Len(s) /\ IsDigit(s[i])
    THEN ParseDigits(s, i + 1, 10 * acc + DigitVal(s[i]))
    ELSE acc

\* parseInt(s): leading white space, an optional sign, then decimal digits up
\* to the first other character; NaN when no digit is found.  parseInt of a
\* missing value parses the text "undefined".
ParseInt(s) ==
  LET i == SkipWhiteSpace(s, 1)
      neg == i <= Len(s) /\ s[i] = "-"
      j == IF i <= Len(s) /\ s[i] \in {"-", "+"} THEN i + 1 ELSE i
  IN IF j <= Len(s) /\ IsDigit(s[j])
       THEN Num(IF neg THEN 0 - ParseDigits(s, j, 0) ELSE ParseDigits(s, j, 0))
       ELSE NaN

\* parseInt(x) || 0
ParsedHeight(s) ==
  LET v == ParseInt(s) IN IF v.nan \/ v.n = 0 THEN 0 ELSE v.n

ToLowerCase(s) ==
  [i \in 1..Len(s) |->
     IF \E k \in 1..26 : UpperCase[k] = s[i]
       THEN LowerCase[CHOOSE k \in 1..26 : UpperCase[k] = s[i]]
       ELSE s[i]]

Includes(s, sub) ==
  \E i \in 0..(Len(s) - Len(sub)) : SubSeq(s, i + 1, i + Len(sub)) = sub

\* if (quality): undefined and "" are falsy
Truthy(s) == s # Undefined /\ s # sEmpty

Null == 0

\* Array.prototype.find over the indices held in s; T holds the elements for
\* which the callback returns true
Find(s, T) ==
  IF \E k \in 1..Len(s) : s[k] \in T
    THEN s[CHOOSE k \in 1..Len(s) : s[k] \in T /\ \A j \in 1..(k - 1) : s[j] \notin T]
    ELSE Null

----
(* selectBestFormat; a descriptor is identified by its index in formats *)

KeepDirect(f, mt) ==
  IF mt = "audio"
    THEN f.hasAudio /\ ~f.hasVideo
    ELSE f.hasVideo /\ f.hasAudio /\ f.container = sMp4

KeepYtdl(f, mt) ==
  IF mt = "audio"
    THEN f.hasAudio /\ ~f.hasVideo /\ f.container = sMp4
    ELSE f.hasVideo /\ f.hasAudio /\ f.container = sMp4

KeepIgnoringContainer(s, f, mt) ==
  IF mt = "audio" THEN (IF s = "direct" THEN KeepDirect(f, mt) ELSE KeepYtdl(f, mt))
  ELSE f.hasVideo /\ f.hasAudio

KeepAnyAudio(s, f, mt) ==
  IF mt = "audio" THEN f.hasAudio /\ (s = "direct" \/ f.container = sMp4)
  ELSE f.hasVideo /\ f.hasAudio /\ f.container = sMp4

Keep(s, f, mt) == IF s = "direct" THEN KeepDirect(f, mt) ELSE KeepYtdl(f, mt)

filteredFormats(s, fs, mt) ==
  SelectSeq([i \in 1..Len(fs) |-> i], LAMBDA i : Keep(s, fs[i], mt))

\* part_000: the height is read from resolution; part_001: from height
HeightOf(s, f) ==
  IF s = "direct" THEN ParsedHeight(f.resolution) ELSE ParsedHeight(f.height)

qualityMap ==
  (s4320p :> 4320) @@ (s2160p :> 2160) @@ (s1440p :> 1440) @@ (s1080p :> 1080) @@
  (s720p :> 720) @@ (s480p :> 480) @@ (s360p :> 360) @@ (s240p :> 240)

\* qualityMap is an object literal: a key it does not define is looked up on
\* Object.prototype, whose members are functions (truthy, not numbers).
ObjectPrototypeKeys == {sConstructor, sToString, sValueOf}

Unset == [kind |-> "unset", n |-> 0]
Number(k) == [kind |-> "number", n |-> k]
NotANumber == [kind |-> "object", n |-> 0]

\* qualityMap[quality] || 1080
TargetHeightOf(q) ==
  IF q \in DOMAIN qualityMap THEN Number(qualityMap[q])
  ELSE IF q \in ObjectPrototypeKeys THEN NotANumber
  ELSE Number(1080)

\* height <= targetHeight; a comparison with a non-number is false
HeightLeq(h, t) == t.kind = "number" /\ h <= t.n

bestMatchStrict(s, fs, ff, t) ==
  Find(ff, {i \in 1..Len(fs) : t.kind = "number" /\ HeightOf(s, fs[i]) < t.n})

bestMatch(s, fs, ff, t) ==
  Find(ff, {i \in 1..Len(fs) : HeightLeq(HeightOf(s, fs[i]), t)})

formatByQuality(fs, ff, q) ==
  Find(ff, {i \in 1..Len(fs) : Includes(ToLowerCase(fs[i].quality), ToLowerCase(q))})

\* the reducer callbacks: the descriptor kept of (best, current)
ReducerDirectLess(fs, best, current) ==
  IF ParsedHeight(fs[best].resolution) < ParsedHeight(fs[current].resolution)
    THEN best ELSE current

ReducerDirect(fs, best, current) ==
  IF ParsedHeight(fs[best].resolution) > ParsedHeight(fs[current].resolution)
    THEN best ELSE current

ReducerYtdlGeq(fs, best, current) ==
  IF ParsedHeight(fs[current].height) >= ParsedHeight(fs[best].height)
    THEN current ELSE best

ReducerYtdl(fs, best, current) ==
  IF ParsedHeight(fs[current].height) > ParsedHeight(fs[best].height)
    THEN current ELSE best

Reducer(s, fs, best, current) ==
  IF s = "direct" THEN ReducerDirect(fs, best, current)
  ELSE ReducerYtdl(fs, best, current)

RECURSIVE ReduceFrom(_, _, _, _, _)
ReduceFrom(s, fs, ff, k, best) ==
  IF k > Len(ff) THEN best
  ELSE ReduceFrom(s, fs, ff, k + 1, Reducer(s, fs, best, ff[k]))

ReduceFirst(s, fs, ff) == ff[1]

\* Array.prototype.reduce without an initial value, on a non-empty array
Reduce(s, fs, ff) == ReduceFrom(s, fs, ff, 2, ff[1])

Returned(ff, t, st, r) ==
  [filtered |-> ff, targetHeight |-> t, stage |-> st, result |-> r]

selectBestFormatDirect(fs, mt, q) ==
  LET ff == filteredFormats("direct", fs, mt)
      byQ == IF Truthy(q) THEN formatByQuality(fs, ff, q) ELSE Null
  IN IF Len(ff) = 0 THEN Returned(ff, Unset, "nomatch", Null)
     ELSE IF Truthy(q) /\ byQ # Null THEN Returned(ff, Unset, "quality", byQ)
     ELSE Returned(ff, Unset, "default", Reduce("direct", fs, ff))

selectBestFormatNoFallThrough(s, fs, mt, q) ==
  LET ff == filteredFormats(s, fs, mt)
      t == IF Truthy(q) THEN TargetHeightOf(q) ELSE Unset
  IN IF Len(ff) = 0 THEN Returned(ff, Unset, "nomatch", Null)
     ELSE IF Truthy(q) THEN Returned(ff, t, "quality", bestMatch(s, fs, ff, t))
     ELSE Returned(ff, t, "default", Reduce(s, fs, ff))

selectBestFormatYtdl(s, fs, mt, q) ==
  LET ff == filteredFormats(s, fs, mt)
      t == IF Truthy(q) THEN TargetHeightOf(q) ELSE Unset
      bm == IF Truthy(q) THEN bestMatch(s, fs, ff, t) ELSE Null
  IN IF Len(ff) = 0 THEN Returned(ff, Unset, "nomatch", Null)
     ELSE IF Truthy(q) /\ bm # Null THEN Returned(ff, t, "quality", bm)
     ELSE Returned(ff, t, "default", Reduce(s, fs, ff))

selectBestFormat(s, fs, mt, q) ==
  IF s = "direct" THEN selectBestFormatDirect(fs, mt, q)
  ELSE selectBestFormatYtdl(s, fs, mt, q)

----
(* Inputs *)
Fmt(q, c, v, a, h) ==
  [quality |-> q, container |-> c, hasVideo |-> v, hasAudio |-> a,
   resolution |-> h, height |-> h, contentLength |-> 0]

Heights == {Undefined, sAbc, s720, s1080, s2160}
Labels == {s480p, s1080p}
Containers == {sMp4, sWebm}

\* every combination of the three filtered fields, and every height and label
\* on the descriptors that can pass a filter
FormatDomain ==
  {Fmt(s480p, c, v, a, s720) : c \in Containers, v \in BOOLEAN, a \in BOOLEAN}
  \cup {Fmt(q, sMp4, v, TRUE, h) : q \in Labels, v \in BOOLEAN, h \in Heights}

Qualities == {Undefined, sEmpty, s480p, s720p, s1080p, sBest, sConstructor}

BoundedSeq(S, n) == UNION {[1..k -> S] : k \in 0..n}

NoMetadata == [state |-> "none", message |-> ""]

DownloadIdle ==
  /\ dpc = "idle"
  /\ metadata = NoMetadata
  /\ promise = "none"
  /\ settleCalls = 0
  /\ error = ""
  /\ clicks = 0
  /\ selectCalls = 0
  /\ downloaded = 0
  /\ lastPercent = -1
  /\ timer = "none"
  /\ progress = 0
  /\ lastReported = -1
  /\ unreported = FALSE

SelectIdle ==
  /\ pc = "ready"
  /\ filtered = <<>>
  /\ targetHeight = Unset
  /\ stage = "idle"
  /\ result = Null

OkResponse == [kind |-> "object", message |-> FALSE, success |-> TRUE, data |-> TRUE]

\* selectBestFormat of the thirdparty service (part_001:459-492) is the text of
\* the ytdl one (part_001:216-249) and nothing calls it
SelectServices == {"direct", "ytdl"}

Init ==
  /\ svc \in SelectServices
  /\ formats \in BoundedSeq(FormatDomain, MaxFormats)
  /\ mediaType \in MediaTypes
  /\ quality \in Qualities
  /\ SelectIdle
  /\ ytdlLoaded = FALSE
  /\ onProgress = FALSE
  /\ response = OkResponse
  /\ DownloadIdle

\* a selectBestFormat that reverses the caller's list in place before selecting
CallSelectBestFormatReversing ==
  /\ pc = "ready"
  /\ formats' = [i \in 1..Len(formats) |-> formats[Len(formats) + 1 - i]]
  /\ LET r == selectBestFormat(svc, formats', mediaType, quality)
     IN /\ filtered' = r.filtered
        /\ targetHeight' = r.targetHeight
        /\ stage' = r.stage
        /\ result' = r.result
  /\ pc' = "returned"
  /\ UNCHANGED <<svc, mediaType, quality>>
  /\ UNCHANGED dlvars

CallSelectBestFormat ==
  /\ pc = "ready"
  /\ LET r == selectBestFormat(svc, formats, mediaType, quality)
     IN /\ filtered' = r.filtered
        /\ targetHeight' = r.targetHeight
        /\ stage' = r.stage
        /\ result' = r.result
  /\ pc' = "returned"
  /\ UNCHANGED <<svc, formats, mediaType, quality>>
  /\ UNCHANGED dlvars

Next == CallSelectBestFormat

Spec == Init /\ [][Next]_vars

\* a second call with the arguments of the first, on the state the first left
CallSelectBestFormatAgain ==
  /\ pc = "returned"
  /\ LET r == selectBestFormat(svc, formats, mediaType, quality)
     IN /\ filtered' = r.filtered
        /\ targetHeight' = r.targetHeight
        /\ stage' = r.stage
        /\ result' = r.result
  /\ pc' = "returnedAgain"
  /\ UNCHANGED <<svc, formats, mediaType, quality>>
  /\ UNCHANGED dlvars

RepeatFormats ==
  {Fmt(q, sMp4, v, TRUE, h) : q \in Labels, v \in BOOLEAN, h \in {s720, s1080}}

RepeatQualities == {Undefined, s480p, s1080p, sConstructor}

InitRepeat ==
  /\ svc \in SelectServices
  /\ formats \in BoundedSeq(RepeatFormats, MaxFormats)
  /\ mediaType \in MediaTypes
  /\ quality \in RepeatQualities
  /\ SelectIdle
  /\ ytdlLoaded = FALSE
  /\ onProgress = FALSE
  /\ response = OkResponse
  /\ DownloadIdle

NextRepeat ==
  \/ CallSelectBestFormat
  \/ CallSelectBestFormatAgain

SpecRepeat == InitRepeat /\ [][NextRepeat]_vars

----
(* getVideoMetadata and downloadVideo *)

ErrMetadata == "Erreur lors de la recuperation des metadonnees"
ErrNoData == "Aucune donnee trouvee pour cette video"
ErrNoFormat == "Aucun format disponible pour ce type de media"
ErrProvider == "message of the provider's error"
ErrStream == "Erreur de telechargement"

\* the provider call rejects (with or without a message), resolves with
\* nothing, or resolves with an object {success, data}
Responses ==
  {[kind |-> "reject", message |-> m, success |-> FALSE, data |-> FALSE] :
     m \in BOOLEAN}
  \cup {[kind |-> "null", message |-> FALSE, success |-> FALSE, data |-> FALSE]}
  \cup {[kind |-> "object", message |-> FALSE, success |-> ok, data |-> d] :
          ok \in BOOLEAN, d \in BOOLEAN}

Failed(msg) == [state |-> "error", message |-> msg]
Fetched == [state |-> "ok", message |-> ""]

getVideoMetadataNoSuccessCheck(resp) ==
  IF resp.kind = "reject"
    THEN Failed(IF resp.message THEN ErrProvider ELSE ErrMetadata)
  ELSE IF resp.kind = "null" THEN Failed(ErrMetadata)
  ELSE IF ~resp.data THEN Failed(ErrNoData)
  ELSE Fetched

\* every throw of the try block is rethrown by the catch block as
\* new Error(error?.message || 'Erreur lors de la ...')
getVideoMetadata(resp) ==
  IF resp.kind = "reject"
    THEN Failed(IF resp.message THEN ErrProvider ELSE ErrMetadata)
  ELSE IF resp.kind = "null" \/ ~resp.success THEN Failed(ErrMetadata)
  ELSE IF ~resp.data THEN Failed(ErrNoData)
  ELSE Fetched

\* resolve() and reject() settle a pending promise and are no-ops afterwards
Settle(how) ==
  /\ promise' = IF promise = "pending" THEN how ELSE promise
  /\ settleCalls' = settleCalls + 1

Reject(msg) ==
  /\ Settle("rejected")
  /\ error' = IF promise = "pending" THEN msg ELSE error

Resolve ==
  /\ Settle("resolved")
  /\ error' = error

\* downloadVideo calls selectBestFormat
Select(s) ==
  LET r == selectBestFormat(s, formats, mediaType, quality)
  IN /\ filtered' = r.filtered
     /\ targetHeight' = r.targetHeight
     /\ stage' = r.stage
     /\ result' = r.result
     /\ selectCalls' = selectCalls + 1

inputs == <<svc, formats, mediaType, quality, pc, ytdlLoaded, onProgress, response>>
selected == <<filtered, targetHeight, stage, result, selectCalls>>

\* part_000: the promise executor creates the link and calls getVideoMetadata
DownloadVideoDirect ==
  /\ svc = "direct" /\ dpc = "idle"
  /\ promise' = "pending"
  /\ dpc' = "awaitMetadata"
  /\ UNCHANGED <<inputs, selected, metadata, settleCalls, error, clicks,
                 downloaded, lastPercent, timer, simvars>>

GetVideoMetadataSettles ==
  /\ dpc = "awaitMetadata"
  /\ metadata' = getVideoMetadata(response)
  /\ dpc' = "metadataSettled"
  /\ UNCHANGED <<inputs, selected, promise, settleCalls, error, clicks,
                 downloaded, lastPercent, timer, simvars>>

\* .then(metadata => ...): reject and return on no format, click and resolve
\* otherwise
ThenCallbackNoReturn ==
  /\ dpc = "metadataSettled" /\ metadata.state = "ok"
  /\ Select("direct")
  /\ IF result' = Null THEN Reject(ErrNoFormat) ELSE Resolve
  /\ clicks' = clicks + 1
  /\ dpc' = "done"
  /\ UNCHANGED <<inputs, metadata, downloaded, lastPercent, timer, simvars>>

ThenCallback ==
  /\ dpc = "metadataSettled" /\ metadata.state = "ok"
  /\ Select("direct")
  /\ IF result' = Null
       THEN Reject(ErrNoFormat) /\ clicks' = clicks
       ELSE Resolve /\ clicks' = clicks + 1
  /\ dpc' = "done"
  /\ UNCHANGED <<inputs, metadata, downloaded, lastPercent, timer, simvars>>

\* .catch(reject)
CatchCallback ==
  /\ dpc = "metadataSettled" /\ metadata.state = "error"
  /\ Reject(metadata.message)
  /\ dpc' = "done"
  /\ UNCHANGED <<inputs, selected, metadata, clicks, downloaded, lastPercent, timer, simvars>>

\* part_001, ytdl: without the library downloadViaBackend clicks a link to the
\* third-party service and the promise resolves; with it, ytdl.getInfo is awaited
DownloadVideoYtdl ==
  /\ svc = "ytdl" /\ dpc = "idle"
  /\ IF ~ytdlLoaded
       THEN /\ clicks' = clicks + 1
            /\ promise' = "resolved"
            /\ settleCalls' = settleCalls + 1
            /\ dpc' = "done"
       ELSE /\ promise' = "pending"
            /\ dpc' = "awaitInfo"
            /\ UNCHANGED <<clicks, settleCalls>>
  /\ UNCHANGED <<inputs, selected, metadata, error, downloaded, lastPercent, timer, simvars>>

\* ytdl.getInfo settles: a rejection is caught and rejects the promise; else
\* the format is selected and the stream is created
GetInfoSettles ==
  /\ dpc = "awaitInfo"
  /\ IF response.kind = "reject"
       THEN /\ Reject(ErrProvider)
            /\ dpc' = "done"
            /\ UNCHANGED selected
       ELSE /\ Select("ytdl")
            /\ IF result' = Null
                 THEN Reject(ErrNoFormat) /\ dpc' = "done"
                 ELSE dpc' = "streaming"
                      /\ UNCHANGED <<promise, settleCalls, error>>
  /\ UNCHANGED <<inputs, metadata, clicks, downloaded, lastPercent, timer, simvars>>

\* Math.round((downloaded / total) * 100)
Percent(d, total) == (200 * d + total) \div (2 * total)

\* stream.on('data'): a chunk of one byte
StreamData ==
  /\ dpc = "streaming" /\ downloaded < MaxChunks
  /\ downloaded' = downloaded + 1
  /\ LET total == formats[result].contentLength
     IN lastPercent' = IF onProgress /\ total > 0
                         THEN Percent(downloaded', total)
                         ELSE lastPercent
  /\ UNCHANGED <<inputs, selected, dpc, metadata, promise, settleCalls, error,
                 clicks, timer, simvars>>

\* stream.on('end'): the blob is saved through a link click
StreamEnd ==
  /\ dpc = "streaming"
  /\ clicks' = clicks + 1
  /\ Resolve
  /\ dpc' = "done"
  /\ UNCHANGED <<inputs, selected, metadata, downloaded, lastPercent, timer, simvars>>

\* stream.on('error')
StreamError ==
  /\ dpc = "streaming"
  /\ Reject(ErrStream)
  /\ dpc' = "done"
  /\ UNCHANGED <<inputs, selected, metadata, clicks, downloaded, lastPercent, timer, simvars>>

\* part_001, thirdparty: the link is clicked at once, the progress interval is
\* started when a callback was passed, and the async function returns
DownloadVideoThirdParty ==
  /\ svc = "thirdparty" /\ dpc = "idle"
  /\ clicks' = clicks + 1
  /\ timer' = IF onProgress THEN "running" ELSE "none"
  /\ progress' = 0
  /\ UNCHANGED <<lastReported, unreported>>
  /\ promise' = "resolved"
  /\ settleCalls' = settleCalls + 1
  /\ dpc' = "done"
  /\ UNCHANGED <<inputs, selected, metadata, error, downloaded, lastPercent>>

\* Math.random() * 10 lies in [0, 10): the whole values of that range
RandomScale == 10
Increments == 0..(RandomScale - 1)
Complete == 100

\* part_001, thirdparty: the interval callback adds the increment, clamps the
\* value to 100 and clears the interval there, and calls onProgress
ProgressTick ==
  /\ svc = "thirdparty" /\ timer = "running"
  /\ \E inc \in Increments :
       LET p == progress + inc
       IN /\ progress' = IF p >= Complete THEN Complete ELSE p
          /\ timer' = IF p >= Complete THEN "cleared" ELSE "running"
          /\ lastReported' = progress'
  /\ UNCHANGED <<inputs, selected, dpc, metadata, promise, settleCalls, error,
                 clicks, downloaded, lastPercent, unreported>>

\* part_000: simulateDownloadProgress returns a promise and starts the interval
SimulateDownloadProgress ==
  /\ svc = "direct" /\ timer = "none"
  /\ timer' = "running"
  /\ progress' = 0
  /\ UNCHANGED <<inputs, selected, dpc, metadata, promise, settleCalls, error,
                 clicks, downloaded, lastPercent, lastReported, unreported>>

\* part_000: the interval callback adds the increment and calls resolve with
\* the value (with 100, clearing the interval, once it reaches 100); resolve
\* settles the promise on its first call and is a no-op afterwards
SimulationTick ==
  /\ svc = "direct" /\ timer = "running"
  /\ \E inc \in Increments :
       LET p == progress + inc
           v == IF p >= Complete THEN Complete ELSE p
       IN /\ progress' = p
          /\ timer' = IF p >= Complete THEN "cleared" ELSE "running"
          /\ IF lastReported = -1
               THEN lastReported' = v /\ unreported' = unreported
               ELSE lastReported' = lastReported /\ unreported' = TRUE
  /\ UNCHANGED <<inputs, selected, dpc, metadata, promise, settleCalls, error,
                 clicks, downloaded, lastPercent>>

WithLength(f, n) == [f EXCEPT !.contentLength = n]

DownloadFormats ==
  {WithLength(Fmt(s480p, sMp4, TRUE, TRUE, s720), 2),
   Fmt(s1080p, sMp4, TRUE, TRUE, s1080),
   WithLength(Fmt(s480p, sMp4, FALSE, TRUE, sEmpty), 2),
   Fmt(s480p, sWebm, TRUE, TRUE, s720)}

DownloadQualities == {Undefined, s720p}

InitDownload ==
  /\ svc \in Services
  /\ formats \in BoundedSeq(DownloadFormats, MaxFormats)
  /\ mediaType \in MediaTypes
  /\ quality \in DownloadQualities
  /\ SelectIdle
  /\ ytdlLoaded \in (IF svc = "ytdl" THEN BOOLEAN ELSE {FALSE})
  /\ onProgress \in (IF svc = "direct" THEN {FALSE} ELSE BOOLEAN)
  /\ response \in (IF svc = "direct" THEN Responses
                   ELSE IF svc = "ytdl" /\ ytdlLoaded
                     THEN {r \in Responses : r.kind = "reject" /\ r.message}
                          \cup {OkResponse}
                   ELSE {OkResponse})
  /\ DownloadIdle

NextDownload ==
  \/ DownloadVideoDirect
  \/ GetVideoMetadataSettles
  \/ ThenCallback
  \/ CatchCallback
  \/ DownloadVideoYtdl
  \/ GetInfoSettles
  \/ StreamData
  \/ StreamEnd
  \/ StreamError
  \/ DownloadVideoThirdParty
  \/ ProgressTick

SpecDownload == InitDownload /\ [][NextDownload]_vars

\* the progress simulations alone
InitProgress ==
  /\ svc \in {"direct", "thirdparty"}
  /\ formats = <<>>
  /\ mediaType \in MediaTypes
  /\ quality = Undefined
  /\ SelectIdle
  /\ ytdlLoaded = FALSE
  /\ onProgress \in (IF svc = "thirdparty" THEN BOOLEAN ELSE {FALSE})
  /\ response = OkResponse
  /\ DownloadIdle

NextProgress ==
  \/ DownloadVideoThirdParty
  \/ ProgressTick
  \/ SimulateDownloadProgress
  \/ SimulationTick

SpecProgress == InitProgress /\ [][NextProgress]_vars

----
(* Properties of selectBestFormat *)

Done == pc = "returned"
Kept == {filtered[k] : k \in 1..Len(filtered)}
H(i) == HeightOf(svc, formats[i])
IsGreatest(r) == r \in Kept /\ \A i \in Kept : H(i) <= H(r)
\* the first kept descriptor, in list order, that is in T
IsFirstKept(r, T) == r \in Kept /\ r \in T /\ \A i \in Kept : i < r => i \notin T
\* the target height the specification gives a label
TableTarget(q) == IF q \in DOMAIN qualityMap THEN qualityMap[q] ELSE 1080
\* a missing or non-numeric height string: no leading digit
NonNumeric(h) == h = Undefined \/ Len(h) = 0 \/ ~IsDigit(h[1])
LabelMatches(i) == Includes(ToLowerCase(formats[i].quality), ToLowerCase(quality))

\* C1: for mediaType = video every descriptor kept by the first-stage filter,
\* and any descriptor returned, has hasVideo, hasAudio and container "mp4".
C1_VideoFilter ==
  (Done /\ mediaType = "video") =>
    /\ \A i \in Kept :
         formats[i].hasVideo /\ formats[i].hasAudio /\ formats[i].container = sMp4
    /\ result # Null =>
         /\ formats[result].hasVideo /\ formats[result].hasAudio
         /\ formats[result].container = sMp4

\* a video call whose filter dropped a webm descriptor and kept another one
C1_Witness ==
  /\ Done /\ mediaType = "video" /\ result # Null
  /\ \E i \in 1..Len(formats) :
       /\ formats[i].hasVideo /\ formats[i].hasAudio
       /\ formats[i].container = sWebm /\ i \notin Kept

\* C2: for mediaType = audio every descriptor kept by the first-stage filter,
\* and any descriptor returned, has hasAudio and no video.
C2_AudioFilter ==
  (Done /\ mediaType = "audio") =>
    /\ \A i \in Kept : formats[i].hasAudio /\ ~formats[i].hasVideo
    /\ result # Null => formats[result].hasAudio /\ ~formats[result].hasVideo

\* an audio call whose filter dropped a descriptor with video and kept another
C2_Witness ==
  /\ Done /\ mediaType = "audio" /\ result # Null
  /\ \E i \in 1..Len(formats) :
       formats[i].hasVideo /\ formats[i].hasAudio /\ i \notin Kept

\* C3: the result is "no match" exactly when no descriptor passes the
\* media-kind filter, whatever the quality input; otherwise it is a kept
\* descriptor.
C3_NoMatchIffEmpty ==
  Done =>
    /\ (Len(filtered) = 0) <=> (result = Null)
    /\ (Len(filtered) = 0) <=>
         ~\E i \in 1..Len(formats) : Keep(svc, formats[i], mediaType)
    /\ result # Null => result \in Kept

\* a call with a recognised label on a non-empty list of which nothing is kept
C3_Witness ==
  /\ Done /\ Len(formats) > 0 /\ Len(filtered) = 0 /\ result = Null
  /\ quality = s720p

\* C4 as stated: with a (non-empty) quality label supplied the result is the
\* first kept descriptor whose parsed height is at most the label's target
\* height, whenever there is one.
C4_FirstWithinTarget ==
  (Done /\ Truthy(quality)
        /\ \E i \in Kept : H(i) <= TableTarget(quality)) =>
    IsFirstKept(result, {i \in Kept : H(i) <= TableTarget(quality)})

\* C4 amended: the part_001 services return the first kept descriptor whose
\* parsed height compares <= the target resolved for a non-empty label; the
\* part_000 service returns the first kept descriptor whose quality label
\* contains the requested label, case-insensitively.
C4_FirstMatch ==
  /\ (Done /\ svc # "direct" /\ Truthy(quality)
           /\ \E i \in Kept : HeightLeq(H(i), TargetHeightOf(quality))) =>
       IsFirstKept(result, {i \in Kept : HeightLeq(H(i), TargetHeightOf(quality))})
  /\ (Done /\ svc = "direct" /\ Truthy(quality)
           /\ \E i \in Kept : LabelMatches(i)) =>
       IsFirstKept(result, {i \in Kept : LabelMatches(i)})

\* heights [1080, 720] with quality "720p": the second descriptor is returned
C4_Witness ==
  /\ Done /\ svc # "direct" /\ quality = s720p /\ Len(filtered) = 2
  /\ H(filtered[1]) = 1080 /\ H(filtered[2]) = 720 /\ result = filtered[2]

\* C5: a non-empty label resolves to the height of the table, and to 1080
\* when the table does not hold it (part_001).
C5_TargetHeightTable ==
  (Done /\ svc # "direct" /\ Truthy(quality) /\ Len(filtered) > 0) =>
    targetHeight = Number(TableTarget(quality))

\* C6 as stated: with a quality label supplied, descriptors kept and none of
\* them within the target height, the result is the greatest-height descriptor.
C6_FallsThrough ==
  (Done /\ quality # Undefined /\ Len(filtered) > 0
        /\ \A i \in Kept : H(i) > TableTarget(quality)) =>
    result # Null /\ IsGreatest(result)

\* C6 amended: when the quality stage finds nothing (part_001: no kept height
\* compares <= the resolved target; part_000: no kept quality label contains
\* the requested label) the default stage decides and "no match" is not
\* returned.
C6_FallsThroughWhenNoMatch ==
  (Done /\ Truthy(quality) /\ Len(filtered) > 0
        /\ IF svc = "direct"
             THEN \A i \in Kept : ~LabelMatches(i)
             ELSE \A i \in Kept : ~HeightLeq(H(i), TargetHeightOf(quality))) =>
    result # Null /\ stage = "default" /\ IsGreatest(result)

\* quality "480p" with two kept descriptors of different heights above 480
C6_Witness ==
  /\ Done /\ svc # "direct" /\ quality = s480p /\ Len(filtered) = 2
  /\ H(filtered[1]) = 720 /\ H(filtered[2]) = 1080 /\ result = filtered[2]

\* C7 as stated: the default stage returns the leftmost descriptor of
\* greatest parsed height.
C7_LeftmostGreatest ==
  (Done /\ stage = "default") =>
    IsGreatest(result) /\ \A i \in Kept : H(i) = H(result) => result <= i

\* C7 amended: the default stage returns a descriptor of greatest parsed
\* height; of several, part_001 returns the leftmost and part_000 the
\* rightmost.
C7_GreatestWithTieBreak ==
  (Done /\ stage = "default") =>
    /\ IsGreatest(result)
    /\ svc # "direct" => \A i \in Kept : H(i) = H(result) => result <= i
    /\ svc = "direct" => \A i \in Kept : H(i) = H(result) => i <= result

\* two kept descriptors of the same positive height, no quality supplied
C7_Witness ==
  /\ Done /\ stage = "default" /\ quality = Undefined /\ Len(filtered) = 2
  /\ H(filtered[1]) = H(filtered[2]) /\ H(filtered[1]) > 0

\* C8 as stated: a descriptor whose height is missing or non-numeric counts
\* as height 0 and is never returned while a kept descriptor has a positive
\* height.
C8_ZeroNeverReturned ==
  Done =>
    /\ \A h \in {Undefined, sEmpty, sAbc} : ParsedHeight(h) = 0
    /\ \A i \in 1..Len(formats) :
         NonNumeric(formats[i].height) => H(i) = 0
    /\ (result # Null /\ \E i \in Kept : H(i) > 0) =>
         ~NonNumeric(formats[result].height)

\* C8 amended: such a descriptor counts as height 0 and the default stage
\* never returns it while a kept descriptor has a positive height; the
\* quality stage can return it.
C8_ZeroNeverWinsDefault ==
  Done =>
    /\ \A h \in {Undefined, sEmpty, sAbc} : ParsedHeight(h) = 0
    /\ \A i \in 1..Len(formats) :
         NonNumeric(formats[i].height) => H(i) = 0
    /\ (stage = "default" /\ \E i \in Kept : H(i) > 0) =>
         (~NonNumeric(formats[result].height) /\ H(result) > 0)

\* the default stage passing over a leading descriptor without a height
C8_Witness ==
  /\ Done /\ stage = "default" /\ Len(filtered) = 2
  /\ NonNumeric(formats[filtered[1]].height)
  /\ H(filtered[2]) > 0 /\ result = filtered[2]

----
(* Properties of downloadVideo, under SpecDownload *)

\* the four failures of the provider call
ProviderFails(r) ==
  r.kind = "reject" \/ r.kind = "null" \/ ~r.success \/ ~r.data

\* C9: when the media-kind filter of a download yields nothing, the download
\* has ended rejected with the "no format" error and no link was clicked.
C9_NoFormatFailure ==
  (selectCalls > 0 /\ Len(filtered) = 0) =>
    /\ dpc = "done"
    /\ promise = "rejected"
    /\ error = ErrNoFormat
    /\ clicks = 0

\* a download of a non-empty list none of whose formats passes the filter
C9_Witness ==
  /\ dpc = "done" /\ selectCalls = 1
  /\ Len(formats) > 0 /\ Len(filtered) = 0
  /\ promise = "rejected" /\ error = ErrNoFormat

\* C10: when the provider call fails, answers nothing, success = false or no
\* data, getVideoMetadata fails with one error and the download of part_000
\* rejects with it, selecting no format and clicking no link; the promise is
\* settled by exactly one call of resolve or reject.
C10_MetadataFailureRejects ==
  svc = "direct" =>
    /\ settleCalls <= 1
    /\ (promise \in {"resolved", "rejected"}) <=> (settleCalls = 1)
    /\ ~(promise = "resolved" /\ error # "")
    /\ dpc = "done" => settleCalls = 1
    /\ (ProviderFails(response) /\ dpc \in {"metadataSettled", "done"}) =>
         /\ metadata.state = "error" /\ metadata.message # ""
         /\ selectCalls = 0 /\ clicks = 0
    /\ (ProviderFails(response) /\ dpc = "done") =>
         promise = "rejected" /\ error = metadata.message

\* a finished download whose provider answered success = false with data
C10_Witness ==
  /\ svc = "direct" /\ dpc = "done"
  /\ response.kind = "object" /\ ~response.success /\ response.data
  /\ promise = "rejected" /\ error = ErrMetadata /\ settleCalls = 1

----
(* Properties of the progress simulations, under SpecProgress *)

\* C11: once a progress simulation is started every tick reports a value to
\* the caller, no reported value exceeds 100, and when the timer has stopped
\* itself the last reported value is exactly 100.
C11_ReportedUntilComplete ==
  timer # "none" =>
    /\ ~unreported
    /\ lastReported <= Complete
    /\ timer = "cleared" => lastReported = Complete

----
(* Purity of selectBestFormat, under SpecRepeat *)

====
